---- MODULE Spec2Model ----
(***************************************************************************)
(* Model of the dailydrop server: the analysis pipeline of                 *)
(* POST /api/analysis (server/routes.ts) over the entry and analysis       *)
(* tables of DatabaseStorage (server/storage.ts), together with entry      *)
(* creation and the share toggle, which write the same entries table.      *)
(*                                                                         *)
(* A request handler is an async function: it is split into one action per *)
(* await at which another request can be served, so that two handlers of   *)
(* the same user interleave exactly where node's event loop lets them.     *)
(***************************************************************************)
EXTENDS Integers, Sequences, FiniteSets, TLC

\* ---------------------------------------------------------------- bounds
MaxEntries == 8     \* rows the entries table may hold
MaxRuns    == 2     \* POST /api/analysis requests served in one behaviour
MaxPatches == 1     \* PATCH /api/entries/:id/share requests served in one behaviour
MaxShareRuns == 1   \* POST /api/analysis requests served next to the share requests
MaxRow     == 2     \* largest question ID a sheet may hold
MaxCalls   == 3     \* getNextQuestion calls in a behaviour that makes nothing else
MaxSets    == 1     \* cursor overwrites attempted in one behaviour
MaxTicks   == 2     \* half days the clock advances in one behaviour
MaxShort   == 2     \* sequencer calls in a behaviour that also overwrites the cursor or moves the clock
MaxReads   == 1     \* GET /api/analysis/:id requests served in one behaviour

\* ------------------------------------------------------- program constants
THRESHOLD == 7      \* ANALYSIS_THRESHOLD of the DropCounter component

Users == {1, 2}     \* users.id of the authenticated users
Runs  == 1..MaxRuns \* one identifier per POST /api/analysis request
ShareRuns == 1..MaxShareRuns
Calls == 1..MaxCalls \* one identifier per call of a sequencer function
ShortCalls == 1..MaxShort   \* the identifiers used next to overwrites and clock steps
NULL  == 0          \* SQL NULL of a timestamp column / no row
now   == 1          \* what new Date() / defaultNow() return: some non-null instant
NoShare == -1       \* SQL NULL of entries.shareId
EmptyShare == 0     \* the "" that the share route stores when un-sharing

\* Backlogs the database holds for user 1 when the server starts: one below
\* the threshold and exactly at it.
InitialBacklog == {THRESHOLD - 1, THRESHOLD}

VARIABLES
    entries,        \* entries table: row id |-> [userId, analyzedAt, isPublic, shareId]
    analyses,       \* analyses table: row id |-> [userId, entryCount, createdAt]
    lastAnalysisAt, \* users.lastAnalysisAt, per user
    nextShare,      \* number of tokens nanoid() has produced
    patches,        \* number of share requests served (bounds the behaviour)
    pc,             \* per request: where the POST /api/analysis handler stands
    user,           \* per request: req.user.id
    batch,          \* per request: the handler's local `entries` (row ids, oldest first)
    analysis,       \* per request: the handler's local `analysis` (row id, NULL before)
    marked,         \* history: the rows the request's markEntriesAsAnalyzed updated
    sheet,          \* the question IDs in column A of the Google Sheet
    currentQuestionIndex, \* sheets.ts module variable: the sequencer cursor
    time,           \* what Date.getTime() returns, in milliseconds
    ticks,          \* number of half days elapsed (bounds the behaviour)
    cpc,            \* per sequencer call: "idle", "fetching" (awaiting the sheet), "done"
    ckind,          \* per sequencer call: "next", "daily" or "current"
    cdate,          \* per daily call: the `new Date()` the route passed in
    cstart,         \* history: the cursor value when the call was made
    log,            \* history: outcomes of the calls finished since the last overwrite
    start,          \* history: the cursor value the last overwrite (or module load) left
    sets,           \* number of cursor overwrites attempted (bounds the behaviour)
    lastSet,        \* history: argument and outcome of the last overwrite attempt
    response,       \* the last answer of GET /api/analysis/:id
    reads,          \* number of GET /api/analysis/:id requests served (bounds the behaviour)
    patch,          \* the last answer of PATCH /api/entries/:id/share, and who asked
    shared,         \* the last answer of GET /api/shared/:shareId
    revoked         \* history: the tokens that a later share request replaced

dbVars  == <<entries, analyses, lastAnalysisAt, nextShare, patches>>
runVars == <<pc, user, batch, analysis, marked>>
seqVars == <<sheet, currentQuestionIndex, time, ticks, cpc, ckind, cdate, cstart,
             log, start, sets, lastSet>>
readVars == <<response, reads, patch, shared, revoked>>

vars == <<entries, analyses, lastAnalysisAt, nextShare, patches,
          pc, user, batch, analysis, marked,
          sheet, currentQuestionIndex, time, ticks, cpc, ckind, cdate, cstart,
          log, start, sets, lastSet, response, reads, patch, shared, revoked>>

\* ------------------------------------------------------------- storage.ts

\* A row of the entries table as createEntry inserts it.
NewEntry(userId) ==
    [userId |-> userId, analyzedAt |-> NULL, isPublic |-> FALSE, shareId |-> NoShare]

EntryIds == 1..Len(entries)

\* getEntry: the row with this id if it belongs to userId, else nothing.
getEntry(userId, id) ==
    IF id \in EntryIds /\ entries[id].userId = userId THEN id ELSE NULL

\* getUnanalyzedEntries: the user's rows with analyzedAt IS NULL, ordered by
\* createdAt (row ids are a serial, so creation order is id order).
getUnanalyzedEntries(userId) ==
    SelectSeq([i \in EntryIds |-> i],
              LAMBDA id : entries[id].userId = userId /\ entries[id].analyzedAt = NULL)

\* getUnanalyzedEntriesCount: count(*) of the same rows.
getUnanalyzedEntriesCount(userId) ==
    Cardinality({id \in EntryIds :
                   entries[id].userId = userId /\ entries[id].analyzedAt = NULL})

Range(s) == {s[i] : i \in 1..Len(s)}

\* markEntriesAsAnalyzed: UPDATE entries SET analyzedAt = now
\*                        WHERE userId = userId AND id IN entryIds.
RowsToMark(userId, entryIds) ==
    {id \in EntryIds : entries[id].userId = userId /\ id \in Range(entryIds)}

\* Variant: the update loses its id filter and stamps every row of the user.
markEntriesAsAnalyzed_allRows(userId, entryIds) ==
    [id \in EntryIds |->
        IF entries[id].userId = userId
        THEN [entries[id] EXCEPT !.analyzedAt = now]
        ELSE entries[id]]

markEntriesAsAnalyzed(userId, entryIds) ==
    [id \in EntryIds |->
        IF id \in RowsToMark(userId, entryIds)
        THEN [entries[id] EXCEPT !.analyzedAt = now]
        ELSE entries[id]]

\* createAnalysis: INSERT INTO analyses (...analysis, userId) RETURNING *.
createAnalysis(userId, entryCount) ==
    Append(analyses, [userId |-> userId, entryCount |-> entryCount, createdAt |-> now])

\* Variant: the update writes a whole row built from defaults, so the
\* analyzed-at watermark of the row is cleared.
updateEntry_overwrite(userId, id, isPublic, shareId) ==
    [i \in EntryIds |->
        IF i = id /\ entries[i].userId = userId
        THEN [NewEntry(userId) EXCEPT !.isPublic = isPublic, !.shareId = shareId]
        ELSE entries[i]]

\* updateEntry: UPDATE entries SET isPublic, shareId WHERE id AND userId.
updateEntry(userId, id, isPublic, shareId) ==
    [i \in EntryIds |->
        IF i = id /\ entries[i].userId = userId
        THEN [entries[i] EXCEPT !.isPublic = isPublic, !.shareId = shareId]
        ELSE entries[i]]

\* ---------------------------------------------------------------- Init

\* The server starts with no request in flight over a database in which
\* user 1 has n entries, none analyzed or shared, and nobody has an analysis.
AppInit(n) ==
    /\ entries = [i \in 1..n |-> NewEntry(1)]
    /\ analyses = <<>>
    /\ lastAnalysisAt = [u \in Users |-> NULL]
    /\ nextShare = 0
    /\ patches = 0
    /\ pc = [r \in Runs |-> "idle"]
    /\ user = [r \in Runs |-> NULL]
    /\ batch = [r \in Runs |-> <<>>]
    /\ analysis = [r \in Runs |-> NULL]
    /\ marked = [r \in Runs |-> {}]

\* sheets.ts as loaded (cursor 1, no call made) over a sheet holding the
\* question IDs of sh, at instant t.
SeqInit(sh, t, idx) ==
    /\ sheet = sh
    /\ currentQuestionIndex = idx
    /\ time = t
    /\ ticks = 0
    /\ cpc = [c \in Calls |-> "idle"]
    /\ ckind = [c \in Calls |-> "none"]
    /\ cdate = [c \in Calls |-> NULL]
    /\ cstart = [c \in Calls |-> NULL]
    /\ log = <<>>
    /\ start = idx
    /\ sets = 0
    /\ lastSet = [arg |-> NULL, via |-> "none", outcome |-> "none", before |-> NULL]

ReadInitWith(old) ==
    /\ response = [status |-> NULL, userId |-> NULL, id |-> NULL, existed |-> FALSE,
                   message |-> "", analysis |-> {}]
    /\ reads = 0
    /\ patch = [status |-> NULL, userId |-> NULL, id |-> NULL]
    /\ shared = [status |-> NULL, shareId |-> NoShare, entry |-> {}]
    /\ revoked = old

ReadInit == ReadInitWith({})

InitWith(n) == AppInit(n) /\ SeqInit(1..MaxRow, 0, 1) /\ ReadInit

Init == \E n \in InitialBacklog : InitWith(n)

InitShare == InitWith(THRESHOLD)

\* ------------------------------------------------------------- routes.ts

\* POST /api/entries: storage.createEntry(req.user.id, parsed.data).
PostEntry(u) ==
    /\ Len(entries) < MaxEntries
    /\ entries' = Append(entries, NewEntry(u))
    /\ UNCHANGED <<analyses, lastAnalysisAt, nextShare, patches>>
    /\ UNCHANGED runVars
    /\ UNCHANGED <<seqVars, readVars>>

\* Variant: the share token is the id of the entry instead of a nanoid.
PatchShare_tokenFromId(u, id, isPublic) ==
    /\ getEntry(u, id) # NULL
    /\ patches < MaxPatches
    /\ LET shareId == IF isPublic THEN id ELSE EmptyShare
       IN  /\ entries' = updateEntry(u, id, isPublic, shareId)
           /\ nextShare' = IF isPublic THEN nextShare + 1 ELSE nextShare
    /\ patches' = patches + 1
    /\ patch' = [status |-> 200, userId |-> u, id |-> id]
    /\ revoked' = IF entries[id].isPublic THEN revoked \cup {entries[id].shareId}
                  ELSE revoked
    /\ UNCHANGED <<analyses, lastAnalysisAt>>
    /\ UNCHANGED runVars
    /\ UNCHANGED seqVars
    /\ UNCHANGED <<response, reads, shared>>

\* Variant: the handler looks the entry up and updates it by id alone.
PatchShare_anyOwner(u, id, isPublic) ==
    /\ id \in EntryIds
    /\ patches < MaxPatches
    /\ LET shareId == IF isPublic THEN nextShare + 1 ELSE EmptyShare
       IN  /\ entries' = updateEntry(entries[id].userId, id, isPublic, shareId)
           /\ nextShare' = IF isPublic THEN nextShare + 1 ELSE nextShare
    /\ patches' = patches + 1
    /\ patch' = [status |-> 200, userId |-> u, id |-> id]
    /\ revoked' = IF entries[id].isPublic THEN revoked \cup {entries[id].shareId}
                  ELSE revoked
    /\ UNCHANGED <<analyses, lastAnalysisAt>>
    /\ UNCHANGED runVars
    /\ UNCHANGED seqVars
    /\ UNCHANGED <<response, reads, shared>>

\* PATCH /api/entries/:id/share, for an entry the caller owns: a fresh nanoid
\* when sharing, "" when un-sharing.
PatchShare(u, id, isPublic) ==
    /\ getEntry(u, id) # NULL
    /\ patches < MaxPatches
    /\ LET shareId == IF isPublic THEN nextShare + 1 ELSE EmptyShare
       IN  /\ entries' = updateEntry(u, id, isPublic, shareId)
           /\ nextShare' = IF isPublic THEN nextShare + 1 ELSE nextShare
    /\ patches' = patches + 1
    /\ patch' = [status |-> 200, userId |-> u, id |-> id]
    /\ revoked' = IF entries[id].isPublic THEN revoked \cup {entries[id].shareId}
                  ELSE revoked
    /\ UNCHANGED <<analyses, lastAnalysisAt>>
    /\ UNCHANGED runVars
    /\ UNCHANGED seqVars
    /\ UNCHANGED <<response, reads, shared>>

\* PATCH /api/entries/:id/share, for an entry the caller does not own or that
\* does not exist: 404, nothing written.
PatchShareNotFound(u, id) ==
    /\ getEntry(u, id) = NULL
    /\ patches < MaxPatches
    /\ patches' = patches + 1
    /\ patch' = [status |-> 404, userId |-> u, id |-> id]
    /\ UNCHANGED <<entries, analyses, lastAnalysisAt, nextShare>>
    /\ UNCHANGED runVars
    /\ UNCHANGED seqVars
    /\ UNCHANGED <<response, reads, shared, revoked>>

\* Variant: the handler without its `entries.length === 0` early return.
PostAnalysis_noEmptyCheck(r, u) ==
    /\ pc[r] = "idle"
    /\ \A q \in Runs : q < r => pc[q] # "idle"
    /\ user' = [user EXCEPT ![r] = u]
    /\ pc' = [pc EXCEPT ![r] = "generating"]
    /\ batch' = [batch EXCEPT ![r] = getUnanalyzedEntries(u)]
    /\ UNCHANGED <<analysis, marked>>
    /\ UNCHANGED dbVars
    /\ UNCHANGED <<seqVars, readVars>>

\* POST /api/analysis, lines 259-283: read the unanalyzed entries, answer 400
\* when there are none, otherwise load the chats and call the generator.
PostAnalysis(r, u) ==
    /\ pc[r] = "idle"
    /\ \A q \in Runs : q < r => pc[q] # "idle"
    /\ LET found == getUnanalyzedEntries(u)
       IN  /\ user' = [user EXCEPT ![r] = u]
           /\ IF Len(found) = 0
              THEN /\ pc' = [pc EXCEPT ![r] = "rejected"]
                   /\ batch' = batch
              ELSE /\ pc' = [pc EXCEPT ![r] = "generating"]
                   /\ batch' = [batch EXCEPT ![r] = found]
    /\ UNCHANGED <<analysis, marked>>
    /\ UNCHANGED dbVars
    /\ UNCHANGED <<seqVars, readVars>>

\* generateAnalysis resolves with the narrative.
GenerateOk(r) ==
    /\ pc[r] = "generating"
    /\ pc' = [pc EXCEPT ![r] = "creating"]
    /\ UNCHANGED <<user, batch, analysis, marked>>
    /\ UNCHANGED dbVars
    /\ UNCHANGED <<seqVars, readVars>>

\* Variant: the failure is noticed only after the batch was stamped.
GenerateFail_marksFirst(r) ==
    /\ pc[r] = "generating"
    /\ pc' = [pc EXCEPT ![r] = "failed"]
    /\ entries' = markEntriesAsAnalyzed(user[r], batch[r])
    /\ UNCHANGED <<analyses, lastAnalysisAt, nextShare, patches>>
    /\ UNCHANGED <<user, batch, analysis, marked>>
    /\ UNCHANGED <<seqVars, readVars>>

\* generateAnalysis throws ("Failed to generate analysis"): the handler's
\* catch answers 500.
GenerateFail(r) ==
    /\ pc[r] = "generating"
    /\ pc' = [pc EXCEPT ![r] = "failed"]
    /\ UNCHANGED <<user, batch, analysis, marked>>
    /\ UNCHANGED dbVars
    /\ UNCHANGED <<seqVars, readVars>>

\* storage.createAnalysis(req.user.id, {content, entryCount: entries.length}).
CreateAnalysis(r) ==
    /\ pc[r] = "creating"
    /\ analyses' = createAnalysis(user[r], Len(batch[r]))
    /\ analysis' = [analysis EXCEPT ![r] = Len(analyses) + 1]
    /\ pc' = [pc EXCEPT ![r] = "marking"]
    /\ UNCHANGED <<entries, lastAnalysisAt, nextShare, patches>>
    /\ UNCHANGED <<user, batch, marked>>
    /\ UNCHANGED <<seqVars, readVars>>

\* storage.markEntriesAsAnalyzed(req.user.id, entries.map(entry => entry.id)).
MarkEntries(r) ==
    /\ pc[r] = "marking"
    /\ entries' = markEntriesAsAnalyzed(user[r], batch[r])
    /\ marked' = [marked EXCEPT ![r] = RowsToMark(user[r], batch[r])]
    /\ pc' = [pc EXCEPT ![r] = "updating"]
    /\ UNCHANGED <<analyses, lastAnalysisAt, nextShare, patches>>
    /\ UNCHANGED <<user, batch, analysis>>
    /\ UNCHANGED <<seqVars, readVars>>

\* Variant: the UPDATE of users has no WHERE clause.
UpdateLastAnalysisTime_allUsers(r) ==
    /\ pc[r] = "updating"
    /\ lastAnalysisAt' = [u \in Users |-> now]
    /\ pc' = [pc EXCEPT ![r] = "done"]
    /\ UNCHANGED <<entries, analyses, nextShare, patches>>
    /\ UNCHANGED <<user, batch, analysis, marked>>
    /\ UNCHANGED <<seqVars, readVars>>

\* storage.updateUserLastAnalysisTime(req.user.id), then 201 with the analysis.
UpdateLastAnalysisTime(r) ==
    /\ pc[r] = "updating"
    /\ lastAnalysisAt' = [lastAnalysisAt EXCEPT ![user[r]] = now]
    /\ pc' = [pc EXCEPT ![r] = "done"]
    /\ UNCHANGED <<entries, analyses, nextShare, patches>>
    /\ UNCHANGED <<user, batch, analysis, marked>>
    /\ UNCHANGED <<seqVars, readVars>>

\* One of the three storage calls after the generation rejects (the store is
\* unavailable, or the process dies before the call): nothing of that call
\* is written, the handler's catch answers 500 and no later call is made.
StorageFail(r) ==
    /\ pc[r] \in {"creating", "marking", "updating"}
    /\ pc' = [pc EXCEPT ![r] = "failed"]
    /\ UNCHANGED <<user, batch, analysis, marked>>
    /\ UNCHANGED dbVars
    /\ UNCHANGED <<seqVars, readVars>>

\* The analysis pipeline over the entries users keep creating.
Next ==
    \/ \E u \in Users : PostEntry(u)
    \/ \E r \in Runs, u \in Users : PostAnalysis(r, u)
    \/ \E r \in Runs : GenerateOk(r)
    \/ \E r \in Runs : GenerateFail(r)
    \/ \E r \in Runs : CreateAnalysis(r)
    \/ \E r \in Runs : MarkEntries(r)
    \/ \E r \in Runs : UpdateLastAnalysisTime(r)
    \/ \E r \in Runs : StorageFail(r)

Spec == Init /\ [][Next]_vars

\* A storage call of request r settles: the database answers or rejects.
Settle(r) ==
    \/ CreateAnalysis(r)
    \/ MarkEntries(r)
    \/ UpdateLastAnalysisTime(r)
    \/ StorageFail(r)

\* Every storage call settles in the end. Nothing is assumed of the generator:
\* `await generateAnalysis(...)` resumes when the OpenAI client resolves or
\* rejects, and the handler sets no timer of its own.
Fairness == \A r \in Runs : WF_vars(Settle(r))

SpecLive == Init /\ [][Next]_vars /\ Fairness

\* The same routes together with the share toggle, which writes the entries
\* table too.
NextShare ==
    \/ \E u \in Users : PostEntry(u)
    \/ \E u \in Users, id \in 1..MaxEntries, p \in BOOLEAN : PatchShare(u, id, p)
    \/ \E u \in Users, id \in 1..MaxEntries : PatchShareNotFound(u, id)
    \/ \E r \in ShareRuns, u \in Users : PostAnalysis(r, u)
    \/ \E r \in ShareRuns : GenerateOk(r)
    \/ \E r \in ShareRuns : GenerateFail(r)
    \/ \E r \in ShareRuns : CreateAnalysis(r)
    \/ \E r \in ShareRuns : MarkEntries(r)
    \/ \E r \in ShareRuns : UpdateLastAnalysisTime(r)
    \/ \E r \in ShareRuns : StorageFail(r)

SpecShare == InitShare /\ [][NextShare]_vars

\* ------------------------------------------------- GET /api/analysis/:id

NaN == -1                                    \* parseInt of an :id that is no number
Anonymous == NULL                            \* a request without a session
IdParams == {NaN} \cup (1..(MaxShareRuns + 1))   \* the :id values requested

\* Variant: the lookup filters on the id alone.
getAnalysis_byIdOnly(userId, id) ==
    {[id |-> a, userId |-> analyses[a].userId, entryCount |-> analyses[a].entryCount] :
        a \in {b \in 1..Len(analyses) : b = id}}

\* getAnalysis: SELECT * FROM analyses WHERE userId = ? AND id = ?; the rows
\* found (at most one).
getAnalysis(userId, id) ==
    {[id |-> a, userId |-> analyses[a].userId, entryCount |-> analyses[a].entryCount] :
        a \in {b \in 1..Len(analyses) : b = id /\ analyses[b].userId = userId}}

Respond(u, id, status, message, rows) ==
    /\ reads < MaxReads
    /\ reads' = reads + 1
    /\ response' = [status |-> status, userId |-> u, id |-> id,
                    existed |-> id \in 1..Len(analyses),
                    message |-> message, analysis |-> rows]
    /\ UNCHANGED dbVars
    /\ UNCHANGED runVars
    /\ UNCHANGED seqVars
    /\ UNCHANGED <<patch, shared, revoked>>

\* The handler of GET /api/analysis/:id answered from the table.
GetAnalysisById(u, id) ==
    IF u = Anonymous THEN Respond(u, id, 401, "", {})
    ELSE IF id = NaN THEN Respond(u, id, 400, "Invalid analysis ID", {})
    ELSE LET rows == getAnalysis(u, id)
         IN  IF rows = {} THEN Respond(u, id, 404, "Analysis not found", {})
             ELSE Respond(u, id, 200, "", rows)

\* The query rejects: the catch answers 500.
GetAnalysisByIdFail(u, id) ==
    /\ u # Anonymous /\ id # NaN
    /\ Respond(u, id, 500, "Failed to fetch analysis", {})

\* Analyses being created and read by id.
NextRead ==
    \/ \E u \in Users : PostEntry(u)
    \/ \E r \in ShareRuns, u \in Users : PostAnalysis(r, u)
    \/ \E r \in ShareRuns : GenerateOk(r)
    \/ \E r \in ShareRuns : GenerateFail(r)
    \/ \E r \in ShareRuns : CreateAnalysis(r)
    \/ \E r \in ShareRuns : MarkEntries(r)
    \/ \E r \in ShareRuns : UpdateLastAnalysisTime(r)
    \/ \E r \in ShareRuns : StorageFail(r)
    \/ \E u \in Users \cup {Anonymous}, id \in IdParams : GetAnalysisById(u, id)
    \/ \E u \in Users, id \in IdParams : GetAnalysisByIdFail(u, id)

SpecRead == InitShare /\ [][NextRead]_vars

\* ------------------------------------------------ GET /api/shared/:shareId

Tokens == 1..(MaxPatches + 2)   \* the :shareId values requested

\* getEntryByShareId: SELECT * FROM entries WHERE shareId = ?; the rows found.
\* A row whose shareId is NULL matches nothing.
getEntryByShareId(shareId) ==
    {id \in EntryIds : entries[id].shareId # NoShare /\ entries[id].shareId = shareId}

\* The handler of GET /api/shared/:shareId: the first row found, if it is
\* public, else 404.
GetShared(token) ==
    /\ reads < MaxReads
    /\ reads' = reads + 1
    /\ LET rows == getEntryByShareId(token)
       IN  IF rows = {}
           THEN shared' = [status |-> 404, shareId |-> token, entry |-> {}]
           ELSE \E id \in rows :
                    shared' = IF entries[id].isPublic
                              THEN [status |-> 200, shareId |-> token, entry |-> {id}]
                              ELSE [status |-> 404, shareId |-> token, entry |-> {}]
    /\ UNCHANGED dbVars
    /\ UNCHANGED runVars
    /\ UNCHANGED seqVars
    /\ UNCHANGED <<response, patch, revoked>>

\* The table after earlier share requests on entry 1 of user 1: never shared,
\* shared under token 1, or shared under token 1 and made private again.
\* Entry 2 belongs to user 2 and was never shared.
SharedBefore ==
    {[isPublic |-> FALSE, shareId |-> NoShare, issued |-> 0, old |-> {}],
     [isPublic |-> TRUE, shareId |-> 1, issued |-> 1, old |-> {}],
     [isPublic |-> FALSE, shareId |-> EmptyShare, issued |-> 1, old |-> {1}]}

InitLookup ==
    \E h \in SharedBefore :
        /\ entries = <<[NewEntry(1) EXCEPT !.isPublic = h.isPublic, !.shareId = h.shareId],
                       NewEntry(2)>>
        /\ analyses = <<>>
        /\ lastAnalysisAt = [u \in Users |-> NULL]
        /\ nextShare = h.issued
        /\ patches = 0
        /\ pc = [r \in Runs |-> "idle"]
        /\ user = [r \in Runs |-> NULL]
        /\ batch = [r \in Runs |-> <<>>]
        /\ analysis = [r \in Runs |-> NULL]
        /\ marked = [r \in Runs |-> {}]
        /\ SeqInit(1..MaxRow, 0, 1)
        /\ ReadInitWith(h.old)

\* Share requests and public lookups.
NextLookup ==
    \/ \E u \in Users, id \in 1..MaxEntries, p \in BOOLEAN : PatchShare(u, id, p)
    \/ \E u \in Users, id \in 1..MaxEntries : PatchShareNotFound(u, id)
    \/ \E token \in Tokens : GetShared(token)

SpecLookup == InitLookup /\ [][NextLookup]_vars

\* -------------------------------------------------------------- sheets.ts

MsPerDay == 86400000     \* 1000 * 60 * 60 * 24 in getDailyQuestion
HalfDay  == MsPerDay \div 2    \* the step by which the modelled clock advances
FallbackCount == 12      \* FALLBACK_QUESTIONS.length
StartDays == {0, 11}     \* day numbers on which a behaviour may begin

Sheets  == SUBSET (1..MaxRow)   \* the sheets a behaviour may run against
SetArgs == (-1)..(MaxRow + 1)   \* the indices callers pass to setQuestionIndex

\* What a sequencer function hands back: the question with a sheet ID, a
\* thrown Error, or one of the fallback questions.
\* `why` tells the thrown Errors apart: the request to the sheet rejected
\* ("transport"), the sheet has no rows ("empty"), or neither the cursor's row
\* nor row 1 is there ("missing").
Question(id)  == [tag |-> "question", val |-> id, why |-> "none"]
Throw(why)    == [tag |-> "throw", val |-> NULL, why |-> why]
Fallback(idx) == [tag |-> "fallback", val |-> idx, why |-> "none"]

\* getDailyQuestion's catch: FALLBACK_QUESTIONS[dayOfYear % length] with
\* dayOfYear = Math.floor(date.getTime() / (1000 * 60 * 60 * 24)).
FallbackQuestion(date) == Fallback((date \div MsPerDay) % FallbackCount)

\* Variant: the wrap branch increments after returning row 1.
getNextQuestion_wrapAdvances(rows, index) ==
    IF rows = {} THEN [index |-> index, out |-> Throw("empty")]
    ELSE IF index \in rows THEN [index |-> index + 1, out |-> Question(index)]
    ELSE IF 1 \in rows THEN [index |-> 2, out |-> Question(1)]
    ELSE [index |-> 1, out |-> Throw("missing")]

\* Variant: the wrap branch restarts the sequence at 0 instead of 1.
getNextQuestion_wrapToZero(rows, index) ==
    IF rows = {} THEN [index |-> index, out |-> Throw("empty")]
    ELSE IF index \in rows THEN [index |-> index + 1, out |-> Question(index)]
    ELSE IF 1 \in rows THEN [index |-> 0, out |-> Question(1)]
    ELSE [index |-> 0, out |-> Throw("missing")]

\* Variant: the index is incremented before the row is returned.
getNextQuestion_incrementFirst(rows, index) ==
    IF rows = {} THEN [index |-> index, out |-> Throw("empty")]
    ELSE IF index \in rows THEN [index |-> index + 1, out |-> Question(index + 1)]
    ELSE IF 1 \in rows THEN [index |-> 1, out |-> Question(1)]
    ELSE [index |-> 1, out |-> Throw("missing")]

\* Variant: the index skips a row on every call.
getNextQuestion_skipsOne(rows, index) ==
    IF rows = {} THEN [index |-> index, out |-> Throw("empty")]
    ELSE IF index \in rows THEN [index |-> index + 2, out |-> Question(index)]
    ELSE IF 1 \in rows THEN [index |-> 1, out |-> Question(1)]
    ELSE [index |-> 1, out |-> Throw("missing")]

\* getNextQuestion after its await, lines 126-156: the rows have arrived and
\* the cursor is `index`; yields the new cursor and what the call hands back.
\* A row matches when parseInt of its column A equals the cursor.
getNextQuestion(rows, index) ==
    IF rows = {} THEN [index |-> index, out |-> Throw("empty")]
    ELSE IF index \in rows THEN [index |-> index + 1, out |-> Question(index)]
    ELSE IF 1 \in rows THEN [index |-> 1, out |-> Question(1)]
    ELSE [index |-> 1, out |-> Throw("missing")]

\* Variant: the lookup copies getNextQuestion's wrap branch.
getCurrentQuestion_wraps(rows, index) ==
    IF rows = {} THEN [index |-> index, out |-> Throw("empty")]
    ELSE IF index \in rows THEN [index |-> index, out |-> Question(index)]
    ELSE IF 1 \in rows THEN [index |-> 1, out |-> Question(1)]
    ELSE [index |-> 1, out |-> Throw("missing")]

\* getCurrentQuestion after its await, lines 57-74.
getCurrentQuestion(rows, index) ==
    IF rows = {} THEN [index |-> index, out |-> Throw("empty")]
    ELSE IF index \in rows THEN [index |-> index, out |-> Question(index)]
    ELSE [index |-> index, out |-> Throw("missing")]

\* Variant: the new index is validated but not stored.
setQuestionIndex_noEffect(index) ==
    IF index < 1 THEN [index |-> currentQuestionIndex, outcome |-> "InvalidArgument"]
    ELSE [index |-> currentQuestionIndex, outcome |-> "ok"]

\* Variant: the guard lets 0 through.
setQuestionIndex_allowsZero(index) ==
    IF index < 0 THEN [index |-> currentQuestionIndex, outcome |-> "InvalidArgument"]
    ELSE [index |-> index, outcome |-> "ok"]

\* setQuestionIndex, lines 91-96: the new cursor and whether it threw.
setQuestionIndex(index) ==
    IF index < 1 THEN [index |-> currentQuestionIndex, outcome |-> "InvalidArgument"]
    ELSE [index |-> index, outcome |-> "ok"]

\* Variant: every caller gets the fallback in place of a thrown Error.
Delivered_fallbackForAll(c, out) ==
    IF out.tag = "throw" THEN FallbackQuestion(cdate[c]) ELSE out

\* What the caller of call c receives for the outcome `out` of the sheets.ts
\* function: getDailyQuestion turns a throw into the day's fallback.
Delivered(c, out) ==
    IF ckind[c] = "daily" /\ out.tag = "throw" THEN FallbackQuestion(cdate[c]) ELSE out

LogEntry(c, out) ==
    [call |-> c, kind |-> ckind[c], began |-> cstart[c],
     read |-> currentQuestionIndex, date |-> cdate[c], raw |-> out,
     out |-> Delivered(c, out)]

seqFrame == /\ UNCHANGED dbVars /\ UNCHANGED runVars /\ UNCHANGED readVars

\* A call of the given kind is made and runs up to
\* `await sheets.spreadsheets.values.get`.
Begin(c, kind) ==
    /\ cpc[c] = "idle"
    /\ \A q \in Calls : q < c => cpc[q] # "idle"
    /\ cpc' = [cpc EXCEPT ![c] = "fetching"]
    /\ ckind' = [ckind EXCEPT ![c] = kind]
    /\ cstart' = [cstart EXCEPT ![c] = currentQuestionIndex]
    /\ UNCHANGED <<sheet, currentQuestionIndex, time, ticks, log, start, sets, lastSet>>

\* GET /api/question: storage.getDailyQuestion(new Date()) calls getNextQuestion.
GetDailyQuestion(c) ==
    /\ Begin(c, "daily")
    /\ cdate' = [cdate EXCEPT ![c] = time]
    /\ seqFrame

\* getNextQuestion called directly (sheets.test.ts).
GetNextQuestion(c) ==
    /\ Begin(c, "next")
    /\ UNCHANGED cdate
    /\ seqFrame

\* GET /api/question/current, or getCurrentQuestion called directly.
GetCurrentQuestion(c) ==
    /\ Begin(c, "current")
    /\ UNCHANGED cdate
    /\ seqFrame

\* Variant: the cursor is read before the await and written back after it.
NextResume_staleRead(c) ==
    /\ cpc[c] = "fetching" /\ ckind[c] \in {"next", "daily"}
    /\ LET r == getNextQuestion(sheet, cstart[c])
       IN  /\ currentQuestionIndex' = r.index
           /\ log' = Append(log, LogEntry(c, r.out))
    /\ cpc' = [cpc EXCEPT ![c] = "done"]
    /\ UNCHANGED <<sheet, time, ticks, ckind, cdate, cstart, start, sets, lastSet>>
    /\ seqFrame

\* The sheet answers a getNextQuestion call: find, wrap or increment run
\* without a further await, so they are one step.
NextResume(c) ==
    /\ cpc[c] = "fetching" /\ ckind[c] \in {"next", "daily"}
    /\ LET r == getNextQuestion(sheet, currentQuestionIndex)
       IN  /\ currentQuestionIndex' = r.index
           /\ log' = Append(log, LogEntry(c, r.out))
    /\ cpc' = [cpc EXCEPT ![c] = "done"]
    /\ UNCHANGED <<sheet, time, ticks, ckind, cdate, cstart, start, sets, lastSet>>
    /\ seqFrame

\* The sheet answers a getCurrentQuestion call.
CurrentResume(c) ==
    /\ cpc[c] = "fetching" /\ ckind[c] = "current"
    /\ LET r == getCurrentQuestion(sheet, currentQuestionIndex)
       IN  /\ currentQuestionIndex' = r.index
           /\ log' = Append(log, LogEntry(c, r.out))
    /\ cpc' = [cpc EXCEPT ![c] = "done"]
    /\ UNCHANGED <<sheet, time, ticks, ckind, cdate, cstart, start, sets, lastSet>>
    /\ seqFrame

\* Variant: the failure path restarts the sequence.
FetchFail_resetsCursor(c) ==
    /\ cpc[c] = "fetching"
    /\ currentQuestionIndex' = 1
    /\ log' = Append(log, LogEntry(c, Throw("transport")))
    /\ cpc' = [cpc EXCEPT ![c] = "done"]
    /\ UNCHANGED <<sheet, time, ticks, ckind, cdate, cstart, start, sets, lastSet>>
    /\ seqFrame

\* The request to the sheet rejects (transport or auth error): the catch of
\* the sheets.ts function rethrows.
FetchFail(c) ==
    /\ cpc[c] = "fetching"
    /\ log' = Append(log, LogEntry(c, Throw("transport")))
    /\ cpc' = [cpc EXCEPT ![c] = "done"]
    /\ UNCHANGED <<sheet, currentQuestionIndex, time, ticks, ckind, cdate, cstart,
                   start, sets, lastSet>>
    /\ seqFrame

\* An overwrite attempt with argument k that came in by `via`.
Overwrite(k, via, r) ==
    /\ sets < MaxSets
    /\ sets' = sets + 1
    /\ currentQuestionIndex' = r.index
    /\ lastSet' = [arg |-> k, via |-> via, outcome |-> r.outcome,
                   before |-> currentQuestionIndex]
    /\ IF r.outcome = "ok"
       THEN log' = <<>> /\ start' = r.index
       ELSE UNCHANGED <<log, start>>

\* setQuestionIndex(k) called directly.
SetQuestionIndex(k) ==
    /\ Overwrite(k, "call", setQuestionIndex(k))
    /\ UNCHANGED <<sheet, time, ticks, cpc, ckind, cdate, cstart>>
    /\ seqFrame

\* POST /api/question/reset with a body the schema rejects: 400.
PostQuestionResetInvalid(k) ==
    /\ k < 1
    /\ Overwrite(k, "route", [index |-> currentQuestionIndex, outcome |-> "400"])
    /\ UNCHANGED <<sheet, time, ticks, cpc, ckind, cdate, cstart>>
    /\ seqFrame

\* POST /api/question/reset with index >= 1: setQuestionIndex, then the
\* handler awaits getCurrentQuestion.
PostQuestionReset(k, c) ==
    /\ k >= 1
    /\ cpc[c] = "idle"
    /\ \A q \in Calls : q < c => cpc[q] # "idle"
    /\ Overwrite(k, "route", setQuestionIndex(k))
    /\ cpc' = [cpc EXCEPT ![c] = "fetching"]
    /\ ckind' = [ckind EXCEPT ![c] = "current"]
    /\ cstart' = [cstart EXCEPT ![c] = k]
    /\ UNCHANGED <<sheet, time, ticks, cdate>>
    /\ seqFrame

\* resetCurrentQuestionIndexForTesting.
ResetCurrentQuestionIndexForTesting ==
    /\ Overwrite(1, "testing", [index |-> 1, outcome |-> "ok"])
    /\ UNCHANGED <<sheet, time, ticks, cpc, ckind, cdate, cstart>>
    /\ seqFrame

\* Half a day passes.
Tick ==
    /\ ticks < MaxTicks
    /\ ticks' = ticks + 1
    /\ time' = time + HalfDay
    /\ UNCHANGED <<sheet, currentQuestionIndex, cpc, ckind, cdate, cstart,
                   log, start, sets, lastSet>>
    /\ seqFrame

InitSeq ==
    /\ AppInit(THRESHOLD)
    /\ \E sh \in Sheets : SeqInit(sh, 0, 1)
    /\ ReadInit

\* The four sequencer functions called directly.
NextSeq ==
    \/ \E c \in ShortCalls : GetNextQuestion(c)
    \/ \E c \in ShortCalls : GetCurrentQuestion(c)
    \/ \E c \in ShortCalls : NextResume(c)
    \/ \E c \in ShortCalls : CurrentResume(c)
    \/ \E c \in ShortCalls : FetchFail(c)
    \/ \E k \in SetArgs : SetQuestionIndex(k)
    \/ ResetCurrentQuestionIndexForTesting

SpecSeq == InitSeq /\ [][NextSeq]_vars

\* A run of getNextQuestion calls from a cursor that an earlier
\* setQuestionIndex left behind (1 when there was none).
InitRun ==
    /\ AppInit(THRESHOLD)
    /\ \E sh \in Sheets, idx \in 1..(MaxRow + 1) : SeqInit(sh, 0, idx)
    /\ ReadInit

NextRun ==
    \/ \E c \in Calls : GetNextQuestion(c)
    \/ \E c \in Calls : NextResume(c)
    \/ \E c \in Calls : FetchFail(c)

SpecRun == InitRun /\ [][NextRun]_vars

InitDay ==
    /\ AppInit(THRESHOLD)
    /\ \E sh \in Sheets, d \in StartDays : SeqInit(sh, d * MsPerDay, 1)
    /\ ReadInit

\* GET /api/question served while the days pass.
NextDay ==
    \/ \E c \in ShortCalls : GetDailyQuestion(c)
    \/ \E c \in ShortCalls : NextResume(c)
    \/ \E c \in ShortCalls : FetchFail(c)
    \/ Tick

SpecDay == InitDay /\ [][NextDay]_vars

\* The cursor overwritten, directly and through POST /api/question/reset,
\* next to GET /api/question.
NextReset ==
    \/ \E c \in ShortCalls : GetDailyQuestion(c)
    \/ \E c \in ShortCalls : NextResume(c)
    \/ \E c \in ShortCalls : CurrentResume(c)
    \/ \E c \in ShortCalls : FetchFail(c)
    \/ \E k \in SetArgs : SetQuestionIndex(k)
    \/ \E k \in SetArgs : PostQuestionResetInvalid(k)
    \/ \E k \in SetArgs, c \in ShortCalls : PostQuestionReset(k, c)

SpecReset == InitSeq /\ [][NextReset]_vars

\* ------------------------------------------------------------ properties

Unanalyzed(tbl, u) ==
    {id \in 1..Len(tbl) : tbl[id].userId = u /\ tbl[id].analyzedAt = NULL}

AnalysesOf(u) == {a \in 1..Len(analyses) : analyses[a].userId = u}

InFlight(r) == pc[r] \in {"generating", "creating", "marking", "updating"}
Finished(r) == pc[r] \in {"rejected", "done", "failed"}

\* The request took the step from markEntriesAsAnalyzed to the timestamp update.
MarkStep(r) == pc[r] = "marking" /\ pc'[r] = "updating"

\* C1: every entry is in the batch of at most one created Analysis: no entry
\* is analyzed twice, whatever the sequence or interleaving of requests.
C1_NoEntryAnalyzedTwice ==
    \A id \in EntryIds :
        Cardinality({r \in Runs : analysis[r] # NULL /\ id \in Range(batch[r])}) <= 1

\* C2: two triggers of one user that both read the same THRESHOLD eligible
\* entries and have both answered (201 or 400) leave exactly one Analysis
\* for the user, with entryCount = THRESHOLD.
C2_ConcurrentTriggersOneAnalysis ==
    \A r1, r2 \in Runs :
        ( /\ r1 # r2
          /\ user[r1] = user[r2]
          /\ Len(batch[r1]) = THRESHOLD
          /\ batch[r1] = batch[r2]
          /\ pc[r1] \in {"done", "rejected"}
          /\ pc[r2] \in {"done", "rejected"} )
        => /\ Cardinality(AnalysesOf(user[r1])) = 1
           /\ \A a \in AnalysesOf(user[r1]) : analyses[a].entryCount = THRESHOLD

\* C3: no two requests of the same user are in flight (between the read of
\* the unanalyzed entries and the end of the commit) at the same time.
C3_OneRunInFlightPerUser ==
    \A r1, r2 \in Runs :
        (r1 # r2 /\ InFlight(r1) /\ InFlight(r2)) => user[r1] # user[r2]

\* C4: a trigger that finds fewer than THRESHOLD unanalyzed entries is
\* rejected, so every request that got as far as the generator read at least
\* THRESHOLD entries, and every Analysis covers at least THRESHOLD entries.
C4_ThresholdGate ==
    /\ \A r \in Runs : (InFlight(r) \/ pc[r] \in {"done", "failed"})
                          => Len(batch[r]) >= THRESHOLD
    /\ \A a \in 1..Len(analyses) : analyses[a].entryCount >= THRESHOLD

\* C5: a request that read THRESHOLD entries and answered 201 has created an
\* Analysis of the user with entryCount = THRESHOLD and every entry of its
\* batch has a non-null analyzedAt; a request that arrives when the user has
\* no unanalyzed entry is rejected, stays rejected, and changes nothing.
C5_DoneInv ==
    \A r \in Runs :
        (pc[r] = "done" /\ Len(batch[r]) = THRESHOLD)
        => /\ analysis[r] \in 1..Len(analyses)
           /\ analyses[analysis[r]].userId = user[r]
           /\ analyses[analysis[r]].entryCount = THRESHOLD
           /\ \A id \in Range(batch[r]) : entries[id].analyzedAt # NULL

C5_RejectStep ==
    \A r \in Runs :
        /\ (pc[r] = "idle" /\ pc'[r] # "idle" /\ Unanalyzed(entries, user'[r]) = {})
              => /\ pc'[r] = "rejected"
                 /\ analyses' = analyses
                 /\ entries' = entries
        /\ pc[r] = "rejected" => pc'[r] = "rejected"

C5_RunThenRejected == [](C5_DoneInv) /\ [][C5_RejectStep]_vars

C5_Witness ==
    \E r1, r2 \in Runs :
        /\ pc[r1] = "done" /\ Len(batch[r1]) = THRESHOLD
        /\ pc[r2] = "rejected" /\ user[r2] = user[r1]
        /\ Len(analyses) = 1

\* C6: a failing generator call ends the request without writing anything
\* (entries, analyses and timestamps are untouched and the request stays
\* failed); a retry that reads the same batch and answers 201 has created
\* exactly one Analysis, whose entryCount is the size of that batch.
C6_FailStep ==
    \A r \in Runs :
        /\ (pc[r] = "generating" /\ pc'[r] = "failed")
              => /\ entries' = entries
                 /\ analyses' = analyses
                 /\ lastAnalysisAt' = lastAnalysisAt
        /\ pc[r] = "failed" => pc'[r] = "failed"

C6_RetryInv ==
    \A r1, r2 \in Runs :
        ( /\ r1 # r2 /\ user[r1] = user[r2]
          /\ pc[r1] = "failed" /\ analysis[r1] = NULL
          /\ pc[r2] = "done" /\ batch[r2] = batch[r1] )
        => /\ analysis[r2] \in 1..Len(analyses)
           /\ analyses[analysis[r2]].entryCount = Len(batch[r1])
           /\ analyses[analysis[r2]].userId = user[r1]
           /\ Cardinality({q \in Runs : analysis[q] = analysis[r2]}) = 1
           /\ Len(analyses) = Cardinality({q \in Runs : analysis[q] # NULL})

C6_FailedGenerationRetriable == [](C6_RetryInv) /\ [][C6_FailStep]_vars

C6_Witness ==
    \E r1, r2 \in Runs :
        /\ r1 < r2 /\ user[r1] = user[r2]
        /\ pc[r1] = "failed" /\ analysis[r1] = NULL /\ Len(batch[r1]) > THRESHOLD
        /\ pc[r2] = "done" /\ batch[r2] = batch[r1]
        /\ Len(analyses) = 1

\* C7: once a request has ended, the Analysis it created (if any) has all
\* entries of its batch marked analyzed, and every entry marked analyzed
\* belongs to the batch of some created Analysis.
C7_CommitAtomic ==
    /\ \A r \in Runs :
          (Finished(r) /\ analysis[r] # NULL)
             => \A id \in Range(batch[r]) : entries[id].analyzedAt # NULL
    /\ \A id \in EntryIds :
          entries[id].analyzedAt # NULL
             => \E r \in Runs : analysis[r] # NULL /\ id \in Range(batch[r])

\* C8: no step (entry creation, share toggle, any step of a pipeline run)
\* takes an entry's analyzedAt from non-null back to null.
C8_Step ==
    \A id \in EntryIds :
        entries[id].analyzedAt # NULL
           => (id \in 1..Len(entries') /\ entries'[id].analyzedAt # NULL)

C8_AnalyzedAtNeverReverts == [][C8_Step]_vars

C8_Witness ==
    \E id \in EntryIds :
        /\ entries[id].analyzedAt # NULL
        /\ entries[id].shareId # NoShare
        /\ Len(entries) > id

\* C9: for every Analysis whose request has ended, entryCount is the number
\* of rows that request's markEntriesAsAnalyzed updated.
C9_EntryCountIsMarkedCount ==
    \A r \in Runs :
        (Finished(r) /\ analysis[r] # NULL)
           => analyses[analysis[r]].entryCount = Cardinality(marked[r])

\* C10: the marking step of a request removes exactly the entries of its
\* batch from the user's unanalyzed set and touches no other row, no other
\* step of a request writes the entries table, and a request that answered
\* 201 has every entry of its batch marked.
C10_Step ==
    \A r \in Runs :
        /\ MarkStep(r)
              => /\ Unanalyzed(entries', user[r])
                      = Unanalyzed(entries, user[r]) \ Range(batch[r])
                 /\ \A id \in EntryIds \ Range(batch[r]) : entries'[id] = entries[id]
        /\ (pc'[r] # pc[r] /\ ~MarkStep(r)) => entries' = entries

C10_DoneInv ==
    \A r \in Runs :
        pc[r] = "done" => \A id \in Range(batch[r]) : entries[id].analyzedAt # NULL

C10_ShrinksByBatch == [](C10_DoneInv) /\ [][C10_Step]_vars

C10_Witness ==
    \E r \in Runs :
        /\ pc[r] = "done" /\ Len(batch[r]) >= THRESHOLD
        /\ \E id \in EntryIds :
              /\ \A b \in Range(batch[r]) : id > b
              /\ entries[id].userId = user[r]
              /\ entries[id].analyzedAt = NULL

\* ------------------------------------------------- properties of the sequencer

\* The getNextQuestion calls that got an answer from the sheet since the cursor
\* was last overwritten, in the order in which they read the cursor.
IsNextEntry(e) == e.kind \in {"next", "daily"} /\ e.raw.why # "transport"
NextLog == SelectSeq(log, IsNextEntry)

\* C11: in every reachable state the cursor currentQuestionIndex is an integer
\* >= 1, whichever of getNextQuestion, getCurrentQuestion, setQuestionIndex and
\* resetCurrentQuestionIndexForTesting have run.
C11_CursorAtLeastOne ==
    currentQuestionIndex \in Nat /\ currentQuestionIndex >= 1

\* A getNextQuestion call found the cursor past the rows and restarted at 1.
C11_Witness ==
    \E i \in 1..Len(log) :
        /\ log[i].kind = "next"
        /\ log[i].read > 1 /\ log[i].read \notin sheet /\ sheet # {}
        /\ currentQuestionIndex = 1

\* C12: with a source holding the IDs 1..N and no setQuestionIndex in between,
\* the n-th getNextQuestion call from cursor `start` returns the ID
\* ((start + n - 2) mod N) + 1: after ID N comes 1 and then 2.
C12_SequentialWithWraparound ==
    \A N \in 1..MaxRow :
        (sheet = 1..N /\ start \in 1..N) =>
            \A n \in 1..Len(NextLog) :
                NextLog[n].out = Question(((start + n - 2) % N) + 1)

\* A getNextQuestion call that found the row of the cursor it read.
NonWrapping(e) == e.raw.tag = "question" /\ e.read \in sheet

\* C13: getNextQuestion reads, increments and writes the cursor in one step, so
\* calls that overlap while awaiting the sheet never take the same cursor value:
\* k non-wrapping calls return the k distinct consecutive IDs start..start+k-1
\* and leave the cursor at start + k, whatever the order in which they resume.
C13_AtomicAdvance ==
    (\A n \in 1..Len(NextLog) : NonWrapping(NextLog[n])) =>
        LET k   == Len(NextLog)
            ids == {NextLog[n].out.val : n \in 1..k}
        IN  /\ \A n \in 1..k : NextLog[n].out.tag = "question"
            /\ Cardinality(ids) = k
            /\ ids = start..(start + k - 1)
            /\ currentQuestionIndex = start + k

\* Two calls were awaiting the sheet at the same time (the later one began
\* before the earlier one advanced the cursor) and both have returned.
C13_Witness ==
    /\ \A n \in 1..Len(NextLog) : NonWrapping(NextLog[n])
    /\ Len(NextLog) = Len(log)
    /\ \E i, j \in 1..Len(NextLog) :
           /\ i < j
           /\ NextLog[i].call # NextLog[j].call
           /\ NextLog[i].began = NextLog[j].began

\* C14: getCurrentQuestion never changes the cursor, neither when it is called
\* nor when it returns or throws.
C14_Step ==
    \A c \in Calls :
        (ckind'[c] = "current" /\ cpc'[c] # cpc[c]) =>
            currentQuestionIndex' = currentQuestionIndex
C14_GetCurrentNeverMutates == [][C14_Step]_vars

\* getCurrentQuestion found no row for a cursor past the rows of a sheet that
\* has row 1, and the cursor is still where it was.
C14_Witness ==
    \E i \in 1..Len(log) :
        /\ log[i].kind = "current"
        /\ log[i].read > 1 /\ log[i].read \notin sheet /\ 1 \in sheet
        /\ log[i].out.tag = "throw"
        /\ currentQuestionIndex = log[i].read

\* The cursor was last overwritten by a successful setQuestionIndex call and a
\* getNextQuestion call has read it since, against a sheet that has rows.
SetThenNext ==
    /\ lastSet.via = "call" /\ lastSet.outcome = "ok"
    /\ sheet # {}
    /\ Len(NextLog) >= 1

\* C15 as stated: setQuestionIndex(k) with k >= 1 followed by getNextQuestion
\* against an available source returns the question with ID k, and the cursor
\* becomes k + 1.
C15_SetThenNextReturnsK ==
    SetThenNext =>
        /\ NextLog[1].out = Question(lastSet.arg)
        /\ Len(NextLog) = 1 => currentQuestionIndex = lastSet.arg + 1

\* C15: setQuestionIndex(k) with k >= 1 followed by getNextQuestion against an
\* available source that has a row with ID k returns the question with ID k,
\* and the cursor becomes k + 1.
C15_SetThenNextReturnsPresentK ==
    (SetThenNext /\ lastSet.arg \in sheet) =>
        /\ NextLog[1].out = Question(lastSet.arg)
        /\ Len(NextLog) = 1 => currentQuestionIndex = lastSet.arg + 1

\* setQuestionIndex(k) for a k > 1 that the sheet has, then one getNextQuestion.
C15_Witness ==
    /\ SetThenNext
    /\ lastSet.arg > 1 /\ lastSet.arg \in sheet
    /\ Len(NextLog) = 1
    /\ NextLog[1].out = Question(lastSet.arg)
    /\ currentQuestionIndex = lastSet.arg + 1

\* An overwrite with an index below 1 is attempted in this step.
InvalidOverwrite == sets' # sets /\ lastSet'.arg < 1

\* C16: setQuestionIndex(n) with n < 1 throws (InvalidArgument) and
\* POST /api/question/reset with index < 1 is rejected; neither changes the
\* cursor.
C16_Step ==
    InvalidOverwrite =>
        /\ currentQuestionIndex' = currentQuestionIndex
        /\ lastSet'.via = "call" => lastSet'.outcome = "InvalidArgument"
        /\ lastSet'.via = "route" => lastSet'.outcome = "400"
C16_InvalidIndexRejected == [][C16_Step]_vars

\* An index below 1 was refused while the cursor stood past 1.
C16_Witness ==
    /\ lastSet.arg < 1
    /\ lastSet.outcome \in {"InvalidArgument", "400"}
    /\ lastSet.before > 1
    /\ currentQuestionIndex = lastSet.before

DayOf(date) == date \div MsPerDay

\* A GET /api/question whose getNextQuestion call failed because the request to
\* the sheet rejected or the sheet came back without rows.
Transient(e) == e.kind = "daily" /\ e.raw.tag = "throw" /\ e.raw.why \in {"transport", "empty"}

\* C17: when the source fails transiently (transport or auth error, or an empty
\* response) the daily question is the fallback question picked by the day
\* number modulo the size of the fallback set, the same for every request of
\* that day, and the cursor is left as it was.
C17_Inv ==
    \A i \in 1..Len(log) :
        Transient(log[i]) =>
            /\ log[i].out = Fallback(DayOf(log[i].date) % FallbackCount)
            /\ \A j \in 1..Len(log) :
                   (Transient(log[j]) /\ DayOf(log[j].date) = DayOf(log[i].date)) =>
                       log[j].out = log[i].out
C17_Step ==
    \A c \in Calls :
        (/\ cpc[c] = "fetching" /\ cpc'[c] = "done"
         /\ Len(log') = Len(log) + 1
         /\ Transient(log'[Len(log')])) =>
            currentQuestionIndex' = currentQuestionIndex
C17_FallbackKeepsCursor == [](C17_Inv) /\ [][C17_Step]_vars

\* On day 11 a request was served from the sheet and a later one, whose fetch
\* failed, got fallback question 11 while the cursor stayed past 1.
C17_Witness ==
    \E i, j \in 1..Len(log) :
        /\ i < j
        /\ log[i].out.tag = "question"
        /\ Transient(log[j])
        /\ log[j].out = Fallback(11)
        /\ log[j].read > 1
        /\ currentQuestionIndex = log[j].read

\* C18: the cursor advances once per day: the GET /api/question requests that
\* are served from the sheet on the same calendar day all return the same
\* question.
C18_OncePerDay ==
    \A i, j \in 1..Len(log) :
        (/\ log[i].kind = "daily" /\ log[j].kind = "daily"
         /\ log[i].raw.tag = "question" /\ log[j].raw.tag = "question"
         /\ DayOf(log[i].date) = DayOf(log[j].date)) =>
            log[i].out = log[j].out

\* ------------------------------------------- properties of the analysis lookup

\* A request of an authenticated user with a numeric :id is answered from the
\* table in this step, and the user has no analysis with that id.
ReadOfForeignOrMissing ==
    /\ reads' # reads
    /\ response'.userId # Anonymous /\ response'.id # NaN
    /\ response'.status # 500
    /\ response'.id \notin AnalysesOf(response'.userId)

\* C19: GET /api/analysis/:id answers NotFound both when no analysis has the id
\* and when the analysis belongs to another user, with the same status and
\* body, so the answer does not tell the two cases apart.
C19_Step ==
    ReadOfForeignOrMissing =>
        /\ response'.status = 404
        /\ response'.message = "Analysis not found"
        /\ response'.analysis = {}
C19_NotOwnedLooksNotFound == [][C19_Step]_vars

\* A user asked for an analysis that existed and belonged to someone else.
C19_Witness ==
    /\ response.status = 404
    /\ response.existed
    /\ analyses[response.id].userId # response.userId

\* ------------------------------------------------------ consecutive questions

\* C20: from cursor c, with the rows c..c+m in the sheet, m + 1 getNextQuestion
\* calls in a row return the IDs c, c+1, ..., c+m in that order.
C20_ConsecutiveRows ==
    \A n \in 1..Len(NextLog) :
        (\A id \in start..(start + n - 1) : id \in sheet) =>
            NextLog[n].out = Question(start + n - 1)

\* Two calls went through two rows that follow one another.
C20_Witness ==
    /\ Len(NextLog) >= 2
    /\ {start, start + 1} \subseteq sheet
    /\ NextLog[1].out = Question(start)
    /\ NextLog[2].out = Question(start + 1)

\* ------------------------------------------------ overwrite, then read

\* Entry i of the log is a getCurrentQuestion call answered by the sheet, and
\* no getNextQuestion call has read the cursor since it was last overwritten.
ReadRightAfterSet(i) ==
    /\ log[i].kind = "current"
    /\ log[i].raw.why # "transport"
    /\ \A j \in 1..(i - 1) : ~IsNextEntry(log[j])

\* C21: setQuestionIndex(k) takes effect at once: a getCurrentQuestion that
\* reads the cursor right after setQuestionIndex(k), with row k in the sheet,
\* returns the question with ID k and leaves the cursor at k.
C21_SetThenCurrentReturnsK ==
    (/\ lastSet.via \in {"call", "route"} /\ lastSet.outcome = "ok"
     /\ lastSet.arg \in sheet) =>
        \A i \in 1..Len(log) :
            ReadRightAfterSet(i) =>
                /\ log[i].out = Question(lastSet.arg)
                /\ log[i].read = lastSet.arg

\* setQuestionIndex(k) moved the cursor to a row k > 1 and the
\* getCurrentQuestion after it returned that row.
C21_Witness ==
    /\ lastSet.via = "call" /\ lastSet.outcome = "ok"
    /\ lastSet.arg > 1 /\ lastSet.arg \in sheet
    /\ lastSet.before # lastSet.arg
    /\ \E i \in 1..Len(log) :
           ReadRightAfterSet(i) /\ log[i].out = Question(lastSet.arg)

\* ------------------------------------------------------- who writes an entry

ShareFields(e) == <<e.isPublic, e.shareId>>

\* The row changes in this step through a share request of its owner, which
\* leaves analyzedAt alone.
OwnerToggles(id) ==
    /\ patches' # patches
    /\ patch'.status = 200 /\ patch'.id = id /\ patch'.userId = entries[id].userId
    /\ entries'[id].analyzedAt = entries[id].analyzedAt
    /\ entries'[id].userId = entries[id].userId

\* The row changes in this step through markEntriesAsAnalyzed of a request of
\* its owner, which leaves the share fields alone.
OwnersRunMarks(id) ==
    /\ \E r \in Runs : MarkStep(r) /\ user[r] = entries[id].userId
    /\ ShareFields(entries'[id]) = ShareFields(entries[id])
    /\ entries'[id].userId = entries[id].userId

\* C22: an entry is changed only by a share request of its owner or by an
\* analysis request of its owner: a share request of any other user is answered
\* 404 and leaves every entry as it was, and an analysis request of user A
\* never stamps analyzedAt on an entry of user B.
C22_Step ==
    /\ \A id \in EntryIds :
           entries'[id] # entries[id] => (OwnerToggles(id) \/ OwnersRunMarks(id))
    /\ (patches' # patches /\ getEntry(patch'.userId, patch'.id) = NULL) =>
           (patch'.status = 404 /\ entries' = entries)
C22_OnlyOwnerOrPipeline == [][C22_Step]_vars

\* A user was refused the toggle of another user's entry, and a request of one
\* user has stamped its batch while an entry of another user stayed unstamped.
C22_Witness ==
    /\ patch.status = 404
    /\ patch.id \in EntryIds /\ entries[patch.id].userId # patch.userId
    /\ ShareFields(entries[patch.id]) = <<FALSE, NoShare>>
    /\ \E r \in Runs :
           /\ marked[r] # {}
           /\ \E id \in EntryIds :
                  entries[id].userId # user[r] /\ entries[id].analyzedAt = NULL

\* ------------------------------------------------ errors of the sequencer

\* A getNextQuestion call that got rows from the sheet but none for the cursor
\* it read.
Misaligned(e) ==
    /\ e.kind \in {"next", "daily"}
    /\ e.raw.why # "transport"
    /\ sheet # {} /\ e.read \notin sheet

\* C23: when the sheet is reachable but has no row for the cursor, the call
\* falls back to row 1, and when row 1 is absent too the caller receives an
\* error (SourceExhausted), not a fallback question.
C23_ExhaustedSurfaced ==
    \A i \in 1..Len(log) :
        Misaligned(log[i]) =>
            IF 1 \in sheet THEN log[i].out = Question(1)
            ELSE log[i].out.tag = "throw"

\* A getCurrentQuestion call that cannot produce the row of the cursor: the
\* request to the sheet rejected, the sheet is empty, or no row matches.
CurrentCannotAnswer(e) ==
    /\ e.kind = "current"
    /\ (e.raw.why = "transport" \/ sheet = {} \/ e.read \notin sheet)

\* C24: getCurrentQuestion never falls back: when the request to the sheet
\* fails, the sheet is empty or no row matches the cursor, the caller gets an
\* error, never a fallback question and never question 1, and the cursor stays
\* where it was.
C24_Inv ==
    \A i \in 1..Len(log) :
        CurrentCannotAnswer(log[i]) => log[i].out.tag = "throw"
C24_Step ==
    (/\ Len(log') = Len(log) + 1
     /\ CurrentCannotAnswer(log'[Len(log')])) =>
        currentQuestionIndex' = currentQuestionIndex
C24_CurrentNeverFallsBack == [](C24_Inv) /\ [][C24_Step]_vars

\* One getCurrentQuestion call failed on the request to the sheet and another
\* found no row for a cursor past 1 although row 1 was there; both threw.
C24_Witness ==
    \E i, j \in 1..Len(log) :
        /\ log[i].kind = "current" /\ log[i].raw.why = "transport"
        /\ log[j].kind = "current" /\ log[j].raw.why = "missing"
        /\ log[i].out.tag = "throw" /\ log[j].out.tag = "throw"
        /\ 1 \in sheet /\ log[j].read > 1
        /\ currentQuestionIndex = log[j].read

\* ------------------------------------------------- requests of different users

\* Nothing that belongs to user u changes in this step.
UntouchedFor(u) ==
    /\ \A id \in EntryIds : entries[id].userId = u => entries'[id] = entries[id]
    /\ \A a \in 1..Len(analyses') :
           analyses'[a].userId = u => (a <= Len(analyses) /\ analyses'[a] = analyses[a])
    /\ lastAnalysisAt'[u] = lastAnalysisAt[u]

\* A request that has passed the empty check can take its next step, whatever
\* the other requests are doing.
CanProceed(r) ==
    /\ pc[r] = "generating" => ENABLED GenerateOk(r)
    /\ pc[r] = "creating" => ENABLED CreateAnalysis(r)
    /\ pc[r] = "marking" => ENABLED MarkEntries(r)
    /\ pc[r] = "updating" => ENABLED UpdateLastAnalysisTime(r)

\* C25: analysis requests of different users are independent: a request of
\* user A, in whatever state (also while it waits for the generator), never
\* keeps a request of user B from going on to "done", and no step of it changes
\* the entries, the analyses or the last-analysis timestamp of user B.
C25_Inv == \A r \in Runs : CanProceed(r)
C25_Step ==
    \A r \in Runs :
        pc'[r] # pc[r] => \A u \in Users \ {user'[r]} : UntouchedFor(u)
C25_UsersIndependent == [](C25_Inv) /\ [][C25_Step]_vars

\* A request of one user went through to "done" while a request of another
\* user was waiting for the generator, and that user's data is as it was.
C25_Witness ==
    \E r1, r2 \in Runs :
        /\ pc[r1] = "generating" /\ pc[r2] = "done"
        /\ user[r1] # user[r2]
        /\ lastAnalysisAt[user[r1]] = NULL /\ lastAnalysisAt[user[r2]] # NULL
        /\ AnalysesOf(user[r1]) = {}
        /\ \A i \in 1..Len(batch[r1]) : entries[batch[r1][i]].analyzedAt = NULL

\* ------------------------------------------ overwrite against a call in flight

\* The log entries of call c (none when it finished before the last overwrite).
EntriesOf(c) == {i \in 1..Len(log) : log[i].call = c}

\* Call c is the only getNextQuestion call of the behaviour, it was made
\* before the one successful setQuestionIndex(k) (the cursor was not k yet),
\* row k is in the sheet, and both have completed with the sheet answering.
SetAgainstNext(c) ==
    /\ sets = 1 /\ lastSet.via = "call" /\ lastSet.outcome = "ok"
    /\ lastSet.arg \in sheet
    /\ ckind[c] = "next" /\ cpc[c] = "done"
    /\ cstart[c] # lastSet.arg
    /\ \A q \in Calls \ {c} : ckind[q] # "next"
    /\ \A i \in EntriesOf(c) : log[i].raw.why # "transport"

\* C26: a setQuestionIndex(k) that interleaves with a getNextQuestion call in
\* flight is neither lost nor half applied: when both have completed, the
\* cursor is k (the call advanced before the overwrite) or k + 1 (the call
\* read k after the overwrite and returned ID k), never a value computed from
\* the cursor before the overwrite.
C26_SetNeverLost ==
    \A c \in Calls :
        SetAgainstNext(c) =>
            IF EntriesOf(c) = {}
            THEN currentQuestionIndex = lastSet.arg
            ELSE /\ currentQuestionIndex = lastSet.arg + 1
                 /\ \A i \in EntriesOf(c) : log[i].out = Question(lastSet.arg)

\* The call was awaiting the sheet when the cursor was overwritten with a
\* k > 1, and returned row k afterwards.
C26_Witness ==
    \E c \in Calls :
        /\ SetAgainstNext(c)
        /\ EntriesOf(c) # {}
        /\ lastSet.arg > 1
        /\ currentQuestionIndex = lastSet.arg + 1

\* ---------------------------------------------------------------- termination

\* C27: every request that went past the empty check ends rejected, failed or
\* done: a generator call that never answers is cut off by a timeout and
\* counted as a failed generation, so no request stays open for ever.
C27_EveryRunTerminates ==
    \A r \in Runs : InFlight(r) ~> Finished(r)

\* ---------------------------------------------------------------- the wrap

\* A getNextQuestion call finishes in this step with rows from the sheet, none
\* of them for the cursor.
WrapStep ==
    /\ Len(log') = Len(log) + 1
    /\ Misaligned(log'[Len(log')])
    /\ log'[Len(log')].read = currentQuestionIndex

\* C28: when getNextQuestion finds no row for the cursor in a non-empty sheet,
\* the cursor is 1 when the call finishes, whether it returns question 1 or
\* throws because row 1 is missing; the cursor is not advanced to 2, so the
\* next getNextQuestion call returns ID 1 again.
C28_Step ==
    WrapStep =>
        /\ currentQuestionIndex' = 1
        /\ log'[Len(log')].raw = IF 1 \in sheet THEN Question(1) ELSE Throw("missing")
C28_Inv ==
    \A n \in 1..(Len(NextLog) - 1) :
        (Misaligned(NextLog[n]) /\ 1 \in sheet) => NextLog[n + 1].out = Question(1)
Triggered(r) == pc[r] = "idle" /\ pc'[r] # "idle"

\* C29: a request of a user with no unanalyzed entry is answered 400 before
\* any generator call and without changing anything; hence every request that
\* calls the generator holds at least one entry and every Analysis ever created
\* has entryCount >= 1.
C29_Inv ==
    /\ \A r \in Runs : (InFlight(r) \/ pc[r] = "done") => Len(batch[r]) >= 1
    /\ \A a \in 1..Len(analyses) : analyses[a].entryCount >= 1
C29_Step ==
    \A r \in Runs :
        (Triggered(r) /\ getUnanalyzedEntriesCount(user'[r]) = 0) =>
            /\ pc'[r] = "rejected"
            /\ batch'[r] = <<>>
            /\ <<entries, analyses, lastAnalysisAt>>' = <<entries, analyses, lastAnalysisAt>>
C29_EmptyTriggerRejected == [](C29_Inv) /\ [][C29_Step]_vars

\* A user without any entry was answered 400 while another user's request had
\* created its Analysis.
C29_Witness ==
    \E r \in Runs :
        /\ pc[r] = "rejected"
        /\ \A id \in EntryIds : entries[id].userId # user[r]
        /\ Len(analyses) >= 1
        /\ analyses[1].userId # user[r]

\* --------------------------------------------------------- the public lookup

\* C30: whatever share requests were served, GET /api/shared/:shareId never
\* returns an entry that is not public: the token of an entry made private (or
\* shared anew) no longer resolves, and sharing again issues a token that was
\* never used before.
C30_Inv ==
    \A id \in EntryIds :
        entries[id].isPublic =>
            /\ entries[id].shareId \notin revoked
            /\ entries[id].shareId \notin {NoShare, EmptyShare}
            /\ \A other \in EntryIds \ {id} : entries[other].shareId # entries[id].shareId
C30_LookupStep ==
    shared' # shared =>
        /\ shared'.status = 200 =>
               /\ shared'.entry # {}
               /\ \A id \in shared'.entry :
                      entries[id].isPublic /\ entries[id].shareId = shared'.shareId
        /\ shared'.shareId \in revoked => shared'.status = 404
C30_ShareStep ==
    \A id \in EntryIds :
        (entries'[id] # entries[id] /\ entries'[id].isPublic) =>
            /\ entries'[id].shareId \notin revoked'
            /\ \A other \in EntryIds : entries[other].shareId # entries'[id].shareId
C30_PrivateNeverResolves ==
    [](C30_Inv) /\ [][C30_LookupStep /\ C30_ShareStep]_vars

\* An entry that had been shared and made private was shared again, and the
\* lookup by its old token was answered 404.
C30_Witness ==
    /\ patch.status = 200
    /\ entries[patch.id].isPublic
    /\ shared.status = 404 /\ shared.shareId \in revoked
====
